---- MODULE Spec2Model ----
(***************************************************************************)
(* A model of package phttp (src/phttp.go): a Client that performs HTTP    *)
(* requests through a Requester, gated by an optional Waiter and retried   *)
(* by an optional backoff.BackOff.                                         *)
(*                                                                         *)
(* Two goroutines call Client.Do on one shared Client.  The Requester and  *)
(* the Waiter are external: the outcome of a Requester.Do is any of a      *)
(* transport error or a response, the outcome of a Waiter.Wait is decided  *)
(* by the request's context.  The BackOff the Client holds is one object   *)
(* shared by every Do call; it is modelled as a policy that allows         *)
(* MaxRetries retries after a Reset.  backoff.Retry resets the policy,     *)
(* runs the operation, returns nil on success and the tagged error on a    *)
(* permanent one, and otherwise asks the policy's NextBackOff, returning   *)
(* the last error on Stop and running the operation again after the delay. *)
(* The policy is not synchronised: its Reset and NextBackOff are steps     *)
(* that concurrent calls interleave in any order.                          *)
(***************************************************************************)
EXTENDS Integers, Sequences, FiniteSets, TLC

\* ---------------------------------------------------------------- bounds

\* The retries the configured backoff.BackOff grants after a Reset.
MaxRetries == 2

\* The Do calls made on the Client, by either goroutine, one after the other
\* or concurrently.
MaxCalls == 2

\* The goroutines that call Do on the shared Client.
Procs == {1, 2}

\* The status codes the Requester answers with: a success code, and both
\* edges of the 4xx range with their neighbours.
Codes == {200, 399, 400, 499, 500}

\* The body texts of a 4xx response.
Bodies == {"denied"}

\* ---------------------------------------------------------------- values

NilResp == [kind |-> "nil"]
NilErr == [kind |-> "nil"]

\* The error a Waiter returns when the context is done.
CtxErr == [kind |-> "context"]

\* A transport-level error of invocation id of the Requester.
TransportErr(id) == [kind |-> "transport", id |-> id]

\* type HTTPError struct { Code; Body; Response }
HTTPError(code, body, response) ==
    [kind |-> "HTTPError", Code |-> code, Body |-> body, Response |-> response]

\* backoff.Permanent(err): the error tagged as not to be retried.
Permanent(e) == [kind |-> "PermanentError", Err |-> e]

\* fmt.Errorf("exhausted all retries: %w", err)
ExhaustedErr(e) == [kind |-> "exhausted all retries", Err |-> e]

\* The options New accepts.
Options == {"WithRateLimiter", "WithBackOff"}

\* func New(opts ...Option) *Client
New(opts) ==
    [Requester |-> "http.DefaultClient",
     Waiter |-> IF "WithRateLimiter" \in opts THEN "Waiter" ELSE "nil",
     Backoff |-> IF "WithBackOff" \in opts THEN "BackOff" ELSE "nil"]

\* What a Requester.Do can answer: a transport error, or a response with a
\* status code and a body stream (its text, and whether reading it fails).
Outcomes ==
    {[kind |-> "error"]}
    \cup {[kind |-> "response", StatusCode |-> c, text |-> "", readFails |-> FALSE] :
            c \in {c \in Codes : ~(c > 399 /\ c < 500)}}
    \cup {[kind |-> "response", StatusCode |-> c, text |-> b, readFails |-> f] :
            c \in {c \in Codes : c > 399 /\ c < 500}, b \in Bodies, f \in BOOLEAN}

\* ---------------------------------------------------------------- state

VARIABLES
    options,        \* the options New was called with
    client,         \* the Client: Requester, Waiter, Backoff
    numTries,       \* the shared BackOff's state: retries granted since Reset
    pc,             \* per goroutine: where its Do call stands
    calls,          \* Do calls started on the Client
    ctx,            \* per goroutine: the request's context
    attempts,       \* per call: invocations of Client.do
    waitCalls,      \* per call: invocations of Waiter.Wait
    transportCalls, \* per call: invocations of Requester.Do
    transErrs,      \* per call: invocations of Requester.Do that failed
    reqres,         \* per call: what the last Requester.Do returned
    body,           \* per call: the body stream of the response received
    opres,          \* per call: what the last Client.do returned
    ret,            \* per call: what Do returned
    overlap         \* per call: another Do call was in flight during it

vars == <<options, client, numTries, pc, calls, ctx, attempts, waitCalls,
          transportCalls, transErrs, reqres, body, opres, ret, overlap>>

NoBody == [reads |-> 0, closes |-> 0]
NoRes == [resp |-> NilResp, err |-> NilErr]

InFlight(p) == pc[p] \notin {"idle", "done"}

Init ==
    /\ options \in SUBSET Options
    /\ client = New(options)
    /\ numTries = 0
    /\ pc = [p \in Procs |-> "idle"]
    /\ calls = 0
    /\ ctx = [p \in Procs |-> "live"]
    /\ attempts = [p \in Procs |-> 0]
    /\ waitCalls = [p \in Procs |-> 0]
    /\ transportCalls = [p \in Procs |-> 0]
    /\ transErrs = [p \in Procs |-> 0]
    /\ reqres = [p \in Procs |-> NoRes]
    /\ body = [p \in Procs |-> NoBody]
    /\ opres = [p \in Procs |-> NoRes]
    /\ ret = [p \in Procs |-> NoRes]
    /\ overlap = [p \in Procs |-> FALSE]

\* ------------------------------------------------------------ Client.do

\* Mutant: the lower edge of the range is off by one, 400 is let through.
IsClientErrorAbove400(code) == code > 400 /\ code < 500

\* Mutant: the upper edge of the range is off by one, 500 is taken in.
IsClientErrorUpTo500(code) == code > 399 /\ code <= 500

\* if resp.StatusCode > 399 && resp.StatusCode < 500
IsClientError(code) == code > 399 /\ code < 500

\* Mutant: the stream is closed after a read that succeeded only, not by a
\* deferred Close.
readHTTPBodyNoDefer(bodyReader) ==
    [bytes |-> IF bodyReader.readFails THEN "" ELSE bodyReader.text,
     err |-> IF bodyReader.readFails THEN [kind |-> "read"] ELSE NilErr,
     reads |-> 1,
     closes |-> IF bodyReader.readFails THEN 0 ELSE 1]

\* func readHTTPBody(bodyReader io.ReadCloser) ([]byte, error):
\* io.ReadAll once, and the deferred Close once on either outcome.
readHTTPBody(bodyReader) ==
    [bytes |-> IF bodyReader.readFails THEN "" ELSE bodyReader.text,
     err |-> IF bodyReader.readFails THEN [kind |-> "read"] ELSE NilErr,
     reads |-> 1,
     closes |-> 1]

\* The response object the Requester hands back for outcome out.
Response(out, id) ==
    [kind |-> "response", id |-> id, StatusCode |-> out.StatusCode,
     Body |-> [text |-> out.text, readFails |-> out.readFails]]

\* Mutant: a failed read of the body is returned as the attempt's error.
doResponseSurfacesReadErr(resp) ==
    IF IsClientError(resp.StatusCode)
    THEN LET rd == readHTTPBody(resp.Body)
         IN  [resp |-> NilResp,
              err |-> IF rd.err # NilErr
                      THEN rd.err
                      ELSE Permanent(HTTPError(resp.StatusCode, rd.bytes, resp)),
              body |-> [reads |-> rd.reads, closes |-> rd.closes]]
    ELSE [resp |-> resp, err |-> NilErr, body |-> NoBody]

\* Mutant: the HTTPError is built without its Response field.
doResponseDropsResponse(resp) ==
    IF IsClientError(resp.StatusCode)
    THEN LET rd == readHTTPBody(resp.Body)
         IN  [resp |-> NilResp,
              err |-> IF rd.err # NilErr
                      THEN Permanent(HTTPError(resp.StatusCode, "", NilResp))
                      ELSE Permanent(HTTPError(resp.StatusCode, rd.bytes, NilResp)),
              body |-> [reads |-> rd.reads, closes |-> rd.closes]]
    ELSE [resp |-> resp, err |-> NilErr, body |-> NoBody]

\* Mutant: the drained 4xx response is returned next to the error.
doResponseKeepsResp(resp) ==
    IF IsClientError(resp.StatusCode)
    THEN LET rd == readHTTPBody(resp.Body)
         IN  [resp |-> resp,
              err |-> IF rd.err # NilErr
                      THEN Permanent(HTTPError(resp.StatusCode, "", resp))
                      ELSE Permanent(HTTPError(resp.StatusCode, rd.bytes, resp)),
              body |-> [reads |-> rd.reads, closes |-> rd.closes]]
    ELSE [resp |-> resp, err |-> NilErr, body |-> NoBody]

\* Client.do from the Requester's answer on: a 4xx response is drained,
\* closed and turned into a permanent HTTPError, any other response is
\* returned as it is.  body is what this did to the response's body stream.
doResponse(resp) ==
    IF IsClientError(resp.StatusCode)
    THEN LET rd == readHTTPBody(resp.Body)
         IN  [resp |-> NilResp,
              err |-> IF rd.err # NilErr
                      THEN Permanent(HTTPError(resp.StatusCode, "", resp))
                      ELSE Permanent(HTTPError(resp.StatusCode, rd.bytes, resp)),
              body |-> [reads |-> rd.reads, closes |-> rd.closes]]
    ELSE [resp |-> resp, err |-> NilErr, body |-> NoBody]

\* c.Requester.Do(req): the response or the error of invocation id.
RequesterDo(out, id) ==
    IF out.kind = "error"
    THEN [resp |-> NilResp, err |-> TransportErr(id)]
    ELSE [resp |-> Response(out, id), err |-> NilErr]

\* Mutant: the Requester's error is tagged permanent like a 4xx answer.
doRequestErrPermanent(rr) ==
    IF rr.err # NilErr
    THEN [resp |-> NilResp, err |-> Permanent(rr.err), body |-> NoBody]
    ELSE doResponse(rr.resp)

\* resp, err := c.Requester.Do(req); if err != nil { return nil, err }
doRequest(rr) ==
    IF rr.err # NilErr
    THEN [resp |-> NilResp, err |-> rr.err, body |-> NoBody]
    ELSE doResponse(rr.resp)

\* ------------------------------------------------------------ Client.Do

\* Mutant: the result of the single attempt is wrapped like a retried one.
DoDirectWrapped(r) ==
    IF r.err # NilErr
    THEN [resp |-> NilResp, err |-> ExhaustedErr(r.err)]
    ELSE [resp |-> r.resp, err |-> NilErr]

\* if c.Backoff == nil { return c.do(req) }
DoDirect(r) == [resp |-> r.resp, err |-> r.err]

\* Mutant: the retry driver's error is returned as it is, not wrapped.
DoRetriedUnwrapped(retryErr, resp) ==
    IF retryErr # NilErr
    THEN [resp |-> NilResp, err |-> retryErr]
    ELSE [resp |-> resp, err |-> NilErr]

\* Mutant: the operation assigns a resp of its own, Do's stays nil.
DoRetriedShadowed(retryErr, resp) ==
    IF retryErr # NilErr
    THEN [resp |-> NilResp, err |-> ExhaustedErr(retryErr)]
    ELSE [resp |-> NilResp, err |-> NilErr]

\* Mutant: the message is built without the retry driver's error.
DoRetriedDiscards(retryErr, resp) ==
    IF retryErr # NilErr
    THEN [resp |-> NilResp, err |-> ExhaustedErr(NilErr)]
    ELSE [resp |-> resp, err |-> NilErr]

\* err := backoff.Retry(operation, c.Backoff); the two returns after it.
DoRetried(retryErr, resp) ==
    IF retryErr # NilErr
    THEN [resp |-> NilResp, err |-> ExhaustedErr(retryErr)]
    ELSE [resp |-> resp, err |-> NilErr]

\* The retry driver on what the operation returned: nil ends the loop with
\* nil, a permanent error ends it with the error it tags, any other error
\* asks the policy for the next delay.
RetryStep(err) ==
    IF err = NilErr THEN [stop |-> TRUE, err |-> NilErr]
    ELSE IF err.kind = "PermanentError" THEN [stop |-> TRUE, err |-> err.Err]
    ELSE [stop |-> FALSE, err |-> err]

\* The policy's answer to NextBackOff: Stop once the budget is spent.
BackOffStops(n) == n >= MaxRetries

\* Mutant: the nil check on the Waiter is missing.
WaiterAlways(c) == TRUE

\* Mutant: the nil check on the Waiter is inverted.
WaiterInverted(c) == c.Waiter = "nil"

\* if c.Waiter != nil
WaiterConfigured(c) == c.Waiter # "nil"

\* Mutant: Wait is given context.Background(), not the request's context.
BackgroundContext(p) == "live"

\* req.Context(), the context Wait is called with.
RequestContext(p) == ctx[p]

\* The end of one invocation of Client.do within Do: without a BackOff its
\* result is Do's result, with one the retry driver decides.
Complete(p, r) ==
    /\ opres' = [opres EXCEPT ![p] = [resp |-> r.resp, err |-> r.err]]
    /\ IF client.Backoff = "nil"
       THEN /\ ret' = [ret EXCEPT ![p] = DoDirect(r)]
            /\ pc' = [pc EXCEPT ![p] = "done"]
       ELSE LET d == RetryStep(r.err)
            IN  IF d.stop
                THEN /\ ret' = [ret EXCEPT ![p] = DoRetried(d.err, r.resp)]
                     /\ pc' = [pc EXCEPT ![p] = "done"]
                ELSE /\ ret' = ret
                     /\ pc' = [pc EXCEPT ![p] = "backoff"]

\* Mutant: the policy is carried on as the last call left it.
RetryNoReset(c, n) == n

\* backoff.Retry(operation, c.Backoff) resets the policy before the first
\* attempt; without a BackOff there is none to reset.
RetryReset(c, n) == IF c.Backoff # "nil" THEN 0 ELSE n

\* Mutant: a Do call on a Client without a BackOff installs one in it.
CallDoInstallsBackoff(p, cancelled) ==
    /\ ~InFlight(p)
    /\ calls < MaxCalls
    /\ calls' = calls + 1
    /\ ctx' = [ctx EXCEPT ![p] = IF cancelled THEN "cancelledAtEntry" ELSE "live"]
    /\ client' = [client EXCEPT !.Backoff = "BackOff"]
    /\ numTries' = 0
    /\ pc' = [pc EXCEPT ![p] = "do"]
    /\ attempts' = [attempts EXCEPT ![p] = 0]
    /\ waitCalls' = [waitCalls EXCEPT ![p] = 0]
    /\ transportCalls' = [transportCalls EXCEPT ![p] = 0]
    /\ transErrs' = [transErrs EXCEPT ![p] = 0]
    /\ reqres' = [reqres EXCEPT ![p] = NoRes]
    /\ body' = [body EXCEPT ![p] = NoBody]
    /\ opres' = [opres EXCEPT ![p] = NoRes]
    /\ ret' = [ret EXCEPT ![p] = NoRes]
    /\ overlap' = [q \in Procs |->
                     IF q = p THEN \E o \in Procs \ {p} : InFlight(o)
                     ELSE overlap[q] \/ InFlight(q)]
    /\ UNCHANGED options

\* A goroutine calls Do with a request whose context is live or already
\* cancelled.  With a BackOff, backoff.Retry resets the policy first.
CallDo(p, cancelled) ==
    /\ ~InFlight(p)
    /\ calls < MaxCalls
    /\ calls' = calls + 1
    /\ ctx' = [ctx EXCEPT ![p] = IF cancelled THEN "cancelledAtEntry" ELSE "live"]
    /\ numTries' = RetryReset(client, numTries)
    /\ pc' = [pc EXCEPT ![p] = "do"]
    /\ attempts' = [attempts EXCEPT ![p] = 0]
    /\ waitCalls' = [waitCalls EXCEPT ![p] = 0]
    /\ transportCalls' = [transportCalls EXCEPT ![p] = 0]
    /\ transErrs' = [transErrs EXCEPT ![p] = 0]
    /\ reqres' = [reqres EXCEPT ![p] = NoRes]
    /\ body' = [body EXCEPT ![p] = NoBody]
    /\ opres' = [opres EXCEPT ![p] = NoRes]
    /\ ret' = [ret EXCEPT ![p] = NoRes]
    /\ overlap' = [q \in Procs |->
                     IF q = p THEN \E o \in Procs \ {p} : InFlight(o)
                     ELSE overlap[q] \/ InFlight(q)]
    /\ UNCHANGED <<options, client>>

\* The caller cancels the context of its request while Do runs.
Cancel(p) ==
    /\ InFlight(p)
    /\ ctx[p] = "live"
    /\ ctx' = [ctx EXCEPT ![p] = "cancelled"]
    /\ UNCHANGED <<options, client, numTries, pc, calls, attempts, waitCalls,
                   transportCalls, transErrs, reqres, body, opres, ret, overlap>>

\* Client.do, the waiter gate: c.Waiter.Wait(req.Context()) fails when the
\* context is done and do returns its error, else do goes on to the request.
DoWait(p) ==
    /\ pc[p] = "do"
    /\ WaiterConfigured(client)
    /\ attempts' = [attempts EXCEPT ![p] = @ + 1]
    /\ waitCalls' = [waitCalls EXCEPT ![p] = @ + 1]
    /\ IF RequestContext(p) # "live"
       THEN Complete(p, [resp |-> NilResp, err |-> CtxErr])
       ELSE /\ pc' = [pc EXCEPT ![p] = "send"]
            /\ UNCHANGED <<opres, ret>>
    /\ UNCHANGED <<options, client, numTries, calls, ctx, transportCalls,
                   transErrs, reqres, body, overlap>>

\* Client.do, the request and its classification.
DoSend(p, out) ==
    /\ \/ pc[p] = "do" /\ ~WaiterConfigured(client)
       \/ pc[p] = "send"
    /\ attempts' = [attempts EXCEPT ![p] = IF pc[p] = "do" THEN @ + 1 ELSE @]
    /\ transportCalls' = [transportCalls EXCEPT ![p] = @ + 1]
    /\ transErrs' = [transErrs EXCEPT ![p] = IF out.kind = "error" THEN @ + 1 ELSE @]
    /\ reqres' = [reqres EXCEPT ![p] = RequesterDo(out, <<p, transportCalls'[p]>>)]
    /\ LET r == doRequest(reqres'[p])
       IN  /\ body' = [body EXCEPT ![p] = r.body]
           /\ Complete(p, r)
    /\ UNCHANGED <<options, client, numTries, calls, ctx, waitCalls, overlap>>

\* The retry driver after a failed attempt that is not permanent: the
\* policy's NextBackOff either stops the loop, and Do returns the wrapped
\* error, or grants a retry, and after the delay the operation runs again.
RetryNext(p) ==
    /\ pc[p] = "backoff"
    /\ IF BackOffStops(numTries)
       THEN /\ ret' = [ret EXCEPT ![p] = DoRetried(opres[p].err, opres[p].resp)]
            /\ pc' = [pc EXCEPT ![p] = "done"]
            /\ numTries' = numTries
       ELSE /\ numTries' = numTries + 1
            /\ pc' = [pc EXCEPT ![p] = "do"]
            /\ ret' = ret
    /\ UNCHANGED <<options, client, calls, ctx, attempts, waitCalls,
                   transportCalls, transErrs, reqres, body, opres, overlap>>

Next ==
    \E p \in Procs :
        \/ \E cancelled \in BOOLEAN : CallDo(p, cancelled)
        \/ Cancel(p)
        \/ DoWait(p)
        \/ \E out \in Outcomes : DoSend(p, out)
        \/ RetryNext(p)

Spec == Init /\ [][Next]_vars

\* The Client with a BackOff, against a Requester that fails on every
\* invocation.
InitBackOff == Init /\ "WithBackOff" \in options

NextFailing ==
    \E p \in Procs :
        \/ \E cancelled \in BOOLEAN : CallDo(p, cancelled)
        \/ Cancel(p)
        \/ DoWait(p)
        \/ DoSend(p, [kind |-> "error"])
        \/ RetryNext(p)

\* Every call the code makes returns: a Wait ends with admission or with the
\* context's error, a Requester.Do ends with a response or an error, and the
\* retry driver's delay ends.  Calling Do and cancelling are the caller's.
FailingSpec ==
    /\ InitBackOff
    /\ [][NextFailing]_vars
    /\ \A p \in Procs :
          /\ WF_vars(DoWait(p))
          /\ WF_vars(DoSend(p, [kind |-> "error"]))
          /\ WF_vars(RetryNext(p))

\* ------------------------------------------------------------ properties

Done(p) == pc[p] = "done"

\* The last Requester.Do of p's call answered with a response.
Answered(p) == reqres[p].resp # NilResp

\* ... with a status code of 400..499.
Answered4xx(p) ==
    /\ Answered(p)
    /\ reqres[p].resp.StatusCode >= 400
    /\ reqres[p].resp.StatusCode <= 499

\* ... with any other status code.
AnsweredOther(p) ==
    /\ Answered(p)
    /\ \/ reqres[p].resp.StatusCode <= 399
       \/ reqres[p].resp.StatusCode >= 500

\* The error an error wraps or tags, the error itself otherwise.
Underlying(e) == IF e.kind = "PermanentError" THEN e.Err ELSE e

\* C1, as stated: whenever the Requester answers an attempt of a Do call
\* with a status of 400..499, the attempt is classified permanent, Do returns
\* an error, and the Requester was invoked exactly once in that Do call.
C1_ExactlyOneInvocation ==
    \A p \in Procs :
        Answered4xx(p) =>
            /\ opres[p].err.kind = "PermanentError"
            /\ Done(p)
            /\ ret[p].err # NilErr
            /\ transportCalls[p] = 1

\* C1, amended: whenever the Requester answers an attempt of a Do call with
\* a status of 400..499, the attempt is classified permanent with that
\* status, Do returns at once with an error and no response, with or without
\* a BackOff and a Waiter, and the Requester is not invoked again in that
\* call: the answer is its last invocation, and its only one when the
\* attempt is the call's first.
C1_PermanentStops ==
    \A p \in Procs :
        Answered4xx(p) =>
            /\ opres[p].err.kind = "PermanentError"
            /\ opres[p].err.Err.kind = "HTTPError"
            /\ opres[p].err.Err.Code = reqres[p].resp.StatusCode
            /\ Done(p)
            /\ ret[p].resp = NilResp
            /\ ret[p].err # NilErr
            /\ reqres[p].resp.id = <<p, transportCalls[p]>>
            /\ transportCalls[p] = transErrs[p] + 1
            /\ (attempts[p] = 1 => transportCalls[p] = 1)

\* C1's case: a call with a BackOff is answered 4xx on the retry that
\* follows a transport error, and ends there with budget left.
C1_Witness ==
    \E p \in Procs :
        /\ Answered4xx(p)
        /\ client.Backoff # "nil"
        /\ numTries < MaxRetries
        /\ Done(p)
        /\ transErrs[p] = 1
        /\ transportCalls[p] = 2
        /\ ret[p].err.kind = "exhausted all retries"

\* C2: whenever the Requester answers an attempt with a status <= 399 or
\* >= 500, Do returns that response with a nil error, its body stream neither
\* read nor closed, and the call is over: the Requester is not invoked again.
C2_OtherStatusIsSuccess ==
    \A p \in Procs :
        AnsweredOther(p) =>
            /\ Done(p)
            /\ ret[p] = [resp |-> reqres[p].resp, err |-> NilErr]
            /\ body[p].reads = 0
            /\ body[p].closes = 0
            /\ reqres[p].resp.id = <<p, transportCalls[p]>>

\* C2's case: a 5xx answer returned as success by a call with a BackOff
\* whose budget is not spent.
C2_Witness ==
    \E p \in Procs :
        /\ AnsweredOther(p)
        /\ reqres[p].resp.StatusCode >= 500
        /\ client.Backoff # "nil"
        /\ numTries < MaxRetries
        /\ Done(p)
        /\ ret[p].resp.StatusCode >= 500

\* The retry driver gave up on p's call because the policy said Stop: the
\* last attempt failed and its error is not permanent.
GaveUpOnBudget(p) ==
    /\ Done(p)
    /\ client.Backoff # "nil"
    /\ opres[p].err # NilErr
    /\ opres[p].err.kind # "PermanentError"

\* No Wait of p's call has failed: every attempt reached the Requester.
NoWaitFailed(p) == attempts[p] = transportCalls[p]

\* C3: with a BackOff, a Do call that runs by itself and whose Requester
\* fails N times and then answers outside 400..499 returns that answer with
\* a nil error after exactly N+1 invocations; it gives up on transport
\* errors only when N is not below the budget, after MaxRetries+1 of them.
C3_RetriesUntilSuccess ==
    \A p \in Procs :
        (client.Backoff # "nil" /\ Done(p) /\ NoWaitFailed(p)) =>
            /\ AnsweredOther(p) =>
                 /\ ret[p] = [resp |-> reqres[p].resp, err |-> NilErr]
                 /\ transportCalls[p] = transErrs[p] + 1
                 /\ reqres[p].resp.id = <<p, transErrs[p] + 1>>
            /\ (reqres[p].err # NilErr /\ ~overlap[p]) =>
                 transErrs[p] = MaxRetries + 1

\* C3's case: the Requester failed on every invocation the budget allows to
\* retry and answered on the next, and Do returned that answer.
C3_Witness ==
    \E p \in Procs :
        /\ client.Backoff # "nil"
        /\ Done(p)
        /\ ~overlap[p]
        /\ transErrs[p] = MaxRetries
        /\ MaxRetries >= 1
        /\ transportCalls[p] = MaxRetries + 1
        /\ AnsweredOther(p)
        /\ ret[p].resp = reqres[p].resp
        /\ ret[p].err = NilErr

\* C4: with a BackOff of a finite budget and a Requester that fails on every
\* invocation, a Do call returns, and what it returns is no response and the
\* "exhausted all retries" error wrapping the error of the call's last
\* Requester invocation.
C4_ExhaustionReturns ==
    \A p \in Procs :
        /\ [](( /\ Done(p)
                /\ transErrs[p] >= 1
                /\ transErrs[p] = attempts[p] ) =>
              ret[p] = [resp |-> NilResp,
                        err |-> ExhaustedErr(TransportErr(<<p, transportCalls[p]>>))])
        /\ (InFlight(p) ~> Done(p))

\* C4's case: every invocation failed, the budget is spent, Do has returned
\* the wrapped error of the last one.
C4_Witness ==
    \E p \in Procs :
        /\ Done(p)
        /\ ~overlap[p]
        /\ transErrs[p] = MaxRetries + 1
        /\ attempts[p] = MaxRetries + 1
        /\ numTries = MaxRetries
        /\ ret[p].err = ExhaustedErr(TransportErr(<<p, MaxRetries + 1>>))

\* C5, as stated: with a Waiter and a request whose context is cancelled
\* when Do is called, with or without a BackOff, Wait is invoked once in the
\* call and never again, the Requester is never invoked, and Do returns no
\* response and the context's error.
C5_CancelledFailsAtOnce ==
    \A p \in Procs :
        (client.Waiter # "nil" /\ ctx[p] = "cancelledAtEntry") =>
            /\ waitCalls[p] <= 1
            /\ attempts[p] <= 1
            /\ transportCalls[p] = 0
            /\ Done(p) =>
                 /\ waitCalls[p] = 1
                 /\ ret[p].resp = NilResp
                 /\ Underlying(IF ret[p].err.kind = "exhausted all retries"
                               THEN ret[p].err.Err ELSE ret[p].err) = CtxErr

\* C6: without a BackOff a Do call makes one attempt, with at most one Wait
\* and at most one Requester invocation, and returns what the attempt
\* returned: the response as it came, or the Wait's error, the Requester's
\* error or the permanent HTTPError, none of them wrapped.
C6_SingleAttemptUnmodified ==
    \A p \in Procs :
        client.Backoff = "nil" =>
            /\ attempts[p] <= 1
            /\ waitCalls[p] <= 1
            /\ transportCalls[p] <= 1
            /\ pc[p] # "backoff"
            /\ Done(p) =>
                 /\ attempts[p] = 1
                 /\ ret[p] = opres[p]
                 /\ ret[p].err.kind # "exhausted all retries"
                 /\ AnsweredOther(p) =>
                      ret[p] = [resp |-> reqres[p].resp, err |-> NilErr]
                 /\ Answered4xx(p) =>
                      /\ ret[p].resp = NilResp
                      /\ ret[p].err.kind = "PermanentError"
                      /\ ret[p].err.Err.kind = "HTTPError"
                 /\ reqres[p].err # NilErr =>
                      ret[p] = [resp |-> NilResp, err |-> reqres[p].err]
                 /\ transportCalls[p] = 0 =>
                      ret[p] = [resp |-> NilResp, err |-> CtxErr]

\* C6's case: without a BackOff, one call has returned the Wait's error and
\* another the Requester's error, each after its single attempt.
C6_Witness ==
    \E p, q \in Procs :
        /\ client.Backoff = "nil"
        /\ Done(p)
        /\ Done(q)
        /\ ret[p].err = CtxErr
        /\ attempts[p] = 1
        /\ ret[q].err = TransportErr(<<q, 1>>)
        /\ attempts[q] = 1

\* C7: with a BackOff, when the retry driver gives up, on a spent budget or
\* on a permanent failure, Do returns no response and the "exhausted all
\* retries" error wrapping the underlying last error, and the call is over.
C7_GiveUpIsWrapped ==
    \A p \in Procs :
        client.Backoff # "nil" =>
            /\ (Done(p) /\ opres[p].err # NilErr) =>
                 /\ ret[p].resp = NilResp
                 /\ ret[p].err = ExhaustedErr(Underlying(opres[p].err))
                 /\ ret[p].err.Err # NilErr
            /\ opres[p].err.kind = "PermanentError" => Done(p)
            /\ InFlight(p) => ret[p] = NoRes

\* C7's case: one call given up on a permanent failure and another on a
\* spent budget, both returned wrapped.
C7_Witness ==
    \E p, q \in Procs :
        /\ client.Backoff # "nil"
        /\ Done(p)
        /\ Done(q)
        /\ opres[p].err.kind = "PermanentError"
        /\ ret[p].err = ExhaustedErr(opres[p].err.Err)
        /\ GaveUpOnBudget(q)
        /\ ret[q].err = ExhaustedErr(opres[q].err)

\* C8: a Client built without WithRateLimiter has no Waiter, and with no
\* Waiter no Do call ever invokes Wait, with or without a BackOff.
C8_NoWaiterNoWait ==
    /\ "WithRateLimiter" \notin options => client.Waiter = "nil"
    /\ client.Waiter = "nil" =>
         \A p \in Procs : waitCalls[p] = 0 /\ pc[p] # "send"

\* C8's case: with no Waiter and a BackOff, a call has retried up to the
\* budget and returned.
C8_Witness ==
    \E p \in Procs :
        /\ client.Waiter = "nil"
        /\ client.Backoff # "nil"
        /\ Done(p)
        /\ attempts[p] = MaxRetries + 1
        /\ transportCalls[p] = MaxRetries + 1
        /\ waitCalls[p] = 0

\* C9: the body stream of a response is never closed twice; by the time Do
\* has returned, that of a 4xx response is closed exactly once, whether
\* reading it succeeded or failed, and that of any other response not at all.
C9_BodyClosedOnce ==
    \A p \in Procs :
        /\ body[p].closes <= 1
        /\ Answered4xx(p) => (Done(p) /\ body[p].closes = 1)
        /\ AnsweredOther(p) => (Done(p) /\ body[p].closes = 0)
        /\ ~Answered(p) => body[p].closes = 0

\* C9's case: two concurrent calls answered 4xx, the body of one read, that
\* of the other failing to be read, each closed once.
C9_Witness ==
    \E p, q \in Procs :
        /\ p # q
        /\ overlap[p]
        /\ Answered4xx(p)
        /\ Answered4xx(q)
        /\ reqres[p].resp.Body.readFails
        /\ ~reqres[q].resp.Body.readFails
        /\ body[p].closes = 1
        /\ body[q].closes = 1

\* C10, as stated: with a BackOff, a Do call makes the attempts and returns
\* the outcome it would by itself: it never makes more than MaxRetries+1
\* attempts, and gives up on a spent budget after exactly MaxRetries+1,
\* whatever other Do calls run at the same time.
C10_CallsIndependent ==
    \A p \in Procs :
        client.Backoff # "nil" =>
            /\ attempts[p] <= MaxRetries + 1
            /\ GaveUpOnBudget(p) => attempts[p] = MaxRetries + 1

\* C11: a Do call that has returned has returned either a response with a
\* nil error, the response's body stream neither read nor closed, or no
\* response with an error; never both, never neither.
C11_ResponseOrError ==
    \A p \in Procs :
        Done(p) =>
            \/ /\ ret[p].resp # NilResp
               /\ ret[p].err = NilErr
               /\ ret[p].resp = reqres[p].resp
               /\ body[p] = NoBody
            \/ /\ ret[p].resp = NilResp
               /\ ret[p].err # NilErr

\* C11's case: with a BackOff, a success returned after failed attempts, and
\* next to it a call that returned an error.
C11_Witness ==
    \E p, q \in Procs :
        /\ client.Backoff # "nil"
        /\ Done(p)
        /\ attempts[p] >= 2
        /\ ret[p].resp # NilResp
        /\ ret[p].err = NilErr
        /\ Done(q)
        /\ ret[q].resp = NilResp
        /\ ret[q].err # NilErr

\* C12: with a Waiter, within a Do call the Requester is invoked only from
\* an attempt whose Wait has returned nil, the outcome of a Wait is that of
\* the call's own request context, and an attempt whose Wait failed ends
\* without invoking the Requester.
C12_WaitThenSend ==
    [][\A p \in Procs :
         client.Waiter # "nil" =>
            /\ transportCalls'[p] = transportCalls[p] + 1 =>
                 /\ pc[p] = "send"
                 /\ waitCalls'[p] = waitCalls[p]
                 /\ attempts'[p] = attempts[p]
                 /\ waitCalls[p] = attempts[p]
            /\ (pc'[p] = "send" /\ pc[p] # "send") =>
                 /\ waitCalls'[p] = waitCalls[p] + 1
                 /\ ctx[p] = "live"
                 /\ transportCalls'[p] = transportCalls[p]
            /\ (waitCalls'[p] = waitCalls[p] + 1 /\ ctx[p] # "live") =>
                 /\ pc'[p] # "send"
                 /\ transportCalls'[p] = transportCalls[p]
                 /\ opres'[p] = [resp |-> NilResp, err |-> CtxErr]
      ]_vars

\* C12's case: a call whose first attempt passed the Wait and reached the
\* Requester, and whose second attempt failed in the Wait and did not.
C12_Witness ==
    \E p \in Procs :
        /\ client.Waiter # "nil"
        /\ waitCalls[p] = 2
        /\ transportCalls[p] = 1
        /\ ctx[p] = "cancelled"
        /\ opres[p].err = CtxErr

\* C13: with a Waiter and a BackOff, every attempt of a Do call, the
\* retries included, invokes Wait: the Wait invocations of a call are as
\* many as its attempts, and the Requester invocations never more.
C13_WaitPerAttempt ==
    \A p \in Procs :
        (client.Waiter # "nil" /\ client.Backoff # "nil") =>
            /\ waitCalls[p] = attempts[p]
            /\ transportCalls[p] <= waitCalls[p]
            /\ pc[p] = "send" => transportCalls[p] < waitCalls[p]

\* C13's case: a call that retried up to the budget, with a Wait before each
\* of its Requester invocations.
C13_Witness ==
    \E p \in Procs :
        /\ client.Waiter # "nil"
        /\ client.Backoff # "nil"
        /\ Done(p)
        /\ transportCalls[p] = MaxRetries + 1
        /\ waitCalls[p] = MaxRetries + 1

\* The HTTPError the caller gets out of the error Do returned (errors.As
\* through the "exhausted all retries" wrapping and the permanent tag), and
\* the response it exposes.
ErrHTTPError(e) ==
    IF e.kind \in {"exhausted all retries", "PermanentError"} THEN e.Err ELSE e

ErrResponse(e) ==
    IF ErrHTTPError(e).kind = "HTTPError" THEN ErrHTTPError(e).Response ELSE NilResp

\* C14: for a 4xx answer the attempt's error is the permanent HTTPError with
\* the answer's status code, its Body the whole body text when the read
\* succeeded and empty when the read failed; a failed read gives no other
\* error and no retry, the call is over.
C14_ClassifiedErrorContent ==
    \A p \in Procs :
        Answered4xx(p) =>
            LET resp == reqres[p].resp
                e == HTTPError(resp.StatusCode,
                               IF resp.Body.readFails THEN "" ELSE resp.Body.text,
                               resp)
            IN  /\ opres[p] = [resp |-> NilResp, err |-> Permanent(e)]
                /\ Done(p)
                /\ ErrHTTPError(ret[p].err) = e
                /\ client.Backoff # "nil" => ret[p].err = ExhaustedErr(e)

\* C14's case: two calls answered 4xx, the body of one read in full, the
\* read of the other failed and its error's Body empty.
C14_Witness ==
    \E p, q \in Procs :
        /\ Answered4xx(p)
        /\ Answered4xx(q)
        /\ ~reqres[p].resp.Body.readFails
        /\ ErrHTTPError(ret[p].err).Body = "denied"
        /\ reqres[q].resp.Body.readFails
        /\ reqres[q].resp.Body.text = "denied"
        /\ ErrHTTPError(ret[q].err).Body = ""
        /\ client.Backoff # "nil"
        /\ numTries < MaxRetries

\* C15, as stated: the 4xx response whose body Do drained and closed is not
\* handed back to the caller, neither as Do's response nor through the
\* error Do returns.
C15_ResponseNeverHandedBack ==
    \A p \in Procs :
        (Done(p) /\ Answered4xx(p)) =>
            /\ ret[p].resp # reqres[p].resp
            /\ ErrResponse(ret[p].err) # reqres[p].resp

\* C15, amended: the 4xx response whose body Do drained and closed is not
\* handed back as Do's response, which is nil; the error Do returns does
\* hold it, as the Response of its HTTPError, its body read and closed once.
C15_ResponseOnlyInError ==
    \A p \in Procs :
        (Done(p) /\ Answered4xx(p)) =>
            /\ ret[p].resp = NilResp
            /\ ErrHTTPError(ret[p].err).kind = "HTTPError"
            /\ ErrResponse(ret[p].err) = reqres[p].resp
            /\ body[p] = [reads |-> 1, closes |-> 1]

\* C15's case: with a BackOff, a call answered 4xx has returned the wrapped
\* error that holds the drained response.
C15_Witness ==
    \E p \in Procs :
        /\ Done(p)
        /\ Answered4xx(p)
        /\ ret[p].resp = NilResp
        /\ ret[p].err.kind = "exhausted all retries"
        /\ ErrResponse(ret[p].err).kind = "response"
        /\ ErrResponse(ret[p].err).id = <<p, transportCalls[p]>>
        /\ body[p].closes = 1

\* C16: no Do call changes the Client: whatever calls have run, together
\* or one after the other, and however they ended, its Requester, Waiter
\* and Backoff are those New set from the options.
C16_ClientImmutable ==
    /\ client = New(options)
    /\ [][client' = client]_vars

\* C16's case: two Do calls have run and returned, one of them after
\* retries, on a Client that holds what it held.
C16_Witness ==
    /\ calls = MaxCalls
    /\ \A p \in Procs : Done(p)
    /\ \E p \in Procs : ret[p].err # NilErr
    /\ \E p \in Procs : attempts[p] >= 2
    /\ client = New(options)

\* C17: with a BackOff, the response a Do call returns with a nil error is
\* the one its own last Requester invocation answered with: not that of an
\* earlier attempt and not one answered to another call.
C17_ReturnsOwnLastResponse ==
    \A p \in Procs :
        (client.Backoff # "nil" /\ Done(p) /\ ret[p].err = NilErr) =>
            /\ ret[p].resp.kind = "response"
            /\ ret[p].resp.id = <<p, transportCalls[p]>>
            /\ ret[p].resp = reqres[p].resp
            /\ \A q \in Procs \ {p} : ret[p].resp # reqres[q].resp

\* C17's case: two concurrent calls have returned a response each, one on
\* its first attempt and one on a retry.
C17_Witness ==
    \E p, q \in Procs :
        /\ p # q
        /\ client.Backoff # "nil"
        /\ overlap[p]
        /\ Done(p)
        /\ Done(q)
        /\ ret[p].resp.kind = "response"
        /\ ret[p].resp.id = <<p, 2>>
        /\ ret[q].resp.kind = "response"
        /\ ret[q].resp.id = <<q, 1>>
        /\ ret[p].resp.StatusCode = ret[q].resp.StatusCode

\* C18: a Do call that no other Do call overlaps has the whole budget,
\* whatever calls ended before it and however: it never makes more than
\* MaxRetries+1 attempts and gives up on a spent budget after exactly
\* MaxRetries+1, the policy being reset when the call starts.
C18_FullBudgetPerCall ==
    \A p \in Procs :
        (client.Backoff # "nil" /\ ~overlap[p]) =>
            /\ attempts[p] <= MaxRetries + 1
            /\ pc[p] = "do" => numTries = attempts[p]
            /\ GaveUpOnBudget(p) => attempts[p] = MaxRetries + 1

\* C18's case: two Do calls, one after the other, against a Requester that
\* always fails: the first spent the budget, the second made as many
\* attempts.
C18_Witness ==
    \E p, q \in Procs :
        /\ p # q
        /\ calls = 2
        /\ ~overlap[p]
        /\ ~overlap[q]
        /\ GaveUpOnBudget(p)
        /\ GaveUpOnBudget(q)
        /\ transErrs[p] = MaxRetries + 1
        /\ transErrs[q] = MaxRetries + 1

====
